---- MODULE Spec2Model ----
(***************************************************************************)
(* Model of the Key-Value Rust client (rust/src/lib.rs): one Client with   *)
(* a base URL and an optional token, one method per REST endpoint, and the *)
(* shared handle_response.  A call is modelled in two steps, split at the  *)
(* `.send().await` suspension point: the method builds and sends its       *)
(* request (or returns early), then the transport delivers a response or a *)
(* failure and handle_response turns it into the call's result.            *)
(***************************************************************************)
EXTENDS Integers, Sequences, FiniteSets, TLC

(* ---------------------------------------------------------------- bounds *)
MaxOpsLen == 102
MaxVersion == 1

(* ------------------------------------------------------ program constants *)
MaxBatch == 100
DEFAULT_BASE_URL == "https://key-value.co"

(* Option<T>: None is the empty sequence, Some(x) the one-element sequence *)
None == <<>>
Some(x) == <<x>>
IsSome(o) == Len(o) = 1
Unwrap(o) == o[1]

(* ------------------------------------------------------------ input sets *)
Tokens == {"alpha-token", "beta-token"}
BaseUrls == {DEFAULT_BASE_URL, "http://localhost:8787"}
Statuses == {199, 200, 299, 300, 404, 500}
TtlOpts == {None, Some(3600)}
TurnstileOpts == {None, Some("cf-challenge")}
LimitOpts == {None, Some(5)}
BeforeOpts == {None, Some(120)}
SinceOpts == {None, Some("2024-01-01T00:00:00Z")}
TypeOpts == {None, Some("temperature")}
Versions == 0..MaxVersion
(* batch list lengths: around both ends of the accepted range 1..MaxBatch *)
OpsLens == {0, 1, 2} \cup ((MaxBatch - 1)..MaxOpsLen)

(* ----------------------------------------------------------- formatting *)
DigitChar(d) ==
    CASE d = 0 -> "0" [] d = 1 -> "1" [] d = 2 -> "2" [] d = 3 -> "3"
      [] d = 4 -> "4" [] d = 5 -> "5" [] d = 6 -> "6" [] d = 7 -> "7"
      [] d = 8 -> "8" [] d = 9 -> "9"

RECURSIVE NatDigits(_)
NatDigits(n) == IF n < 10 THEN <<DigitChar(n)>>
                ELSE NatDigits(n \div 10) \o <<DigitChar(n % 10)>>

(* Display of an integer: decimal digits, '-' first when negative *)
FmtInt(n) == IF n < 0 THEN <<"-">> \o NatDigits(0 - n) ELSE NatDigits(n)

(* StatusCode's canonical reason phrase; unknown codes print a placeholder *)
CanonicalReason(s) ==
    CASE s = 200 -> "OK"
      [] s = 300 -> "Multiple Choices"
      [] s = 404 -> "Not Found"
      [] s = 500 -> "Internal Server Error"
      [] OTHER -> "<unknown status code>"

(* format!("{}", status): "<code> <reason>" *)
FmtStatus(s) == NatDigits(s) \o <<" ", CanonicalReason(s)>>

(* format!("HTTP {}", status) *)
SynthMessageNoStatus(s) == <<"HTTP error">>
SynthMessage(s) == <<"HTTP", " ">> \o FmtStatus(s)

(* query.join("&") over a list of already formatted pieces *)
RECURSIVE Join(_, _)
Join(parts, sep) ==
    IF Len(parts) = 0 THEN <<>>
    ELSE IF Len(parts) = 1 THEN parts[1]
    ELSE parts[1] \o <<sep>> \o Join(Tail(parts), sep)

IsSuccess(s) == 200 <= s /\ s <= 299

(* ------------------------------------------------------- response bodies *)
(* A body is either not JSON (or unreadable) or a JSON object, given by    *)
(* the set of its <<field, JSON type>> pairs; `error` is the text of its   *)
(* "error" string and `results` the success flags of its "results" array.  *)
RawBody(js, fs, err, res) ==
    [json |-> js, fields |-> fs, error |-> err, results |-> res]

StoreFields ==
    {<<"success", "bool">>, <<"message", "string">>, <<"size", "number">>,
     <<"tier", "string">>, <<"version", "number">>,
     <<"updated_at", "string">>, <<"expires_at", "null">>}
RetrieveFields ==
    {<<"success", "bool">>, <<"data", "object">>, <<"version", "number">>,
     <<"updated_at", "string">>, <<"expires_at", "string">>}
PatchFields ==
    {<<"success", "bool">>, <<"version", "number">>, <<"updated_at", "string">>,
     <<"data", "object">>, <<"size", "number">>, <<"tier", "string">>}
HistoryFields ==
    {<<"success", "bool">>, <<"events", "array">>, <<"pagination", "object">>}
BatchFields ==
    {<<"success", "bool">>, <<"results", "array">>, <<"summary", "object">>}

BodyIds == 1..13
(* the bodies tried against each method: the generic ones, the method's    *)
(* own shape and one of another method                                     *)
BodyIdsFor(op) ==
    (1..3) \cup
    (CASE op = "generate" -> {4, 5}
       [] op = "store" -> {6, 8}
       [] op = "retrieve" -> {7, 9}
       [] op = "delete" -> {8, 6}
       [] op = "patch" -> {9, 7}
       [] op = "history" -> {10, 5}
       [] op = "batch" -> {11, 12, 13}
       [] OTHER -> {})
BodyOf(i) ==
    CASE i = 1 -> RawBody(FALSE, {}, <<>>, <<>>)
      [] i = 2 -> RawBody(TRUE, {<<"error", "string">>}, <<"token not found">>, <<>>)
      [] i = 3 -> RawBody(TRUE, {<<"error", "number">>}, <<>>, <<>>)
      [] i = 4 -> RawBody(TRUE, {}, <<>>, <<>>)
      [] i = 5 -> RawBody(TRUE, {<<"success", "bool">>, <<"token", "string">>}, <<>>, <<>>)
      [] i = 6 -> RawBody(TRUE, StoreFields, <<>>, <<>>)
      [] i = 7 -> RawBody(TRUE, RetrieveFields, <<>>, <<>>)
      [] i = 8 -> RawBody(TRUE, {<<"success", "bool">>, <<"message", "string">>}, <<>>, <<>>)
      [] i = 9 -> RawBody(TRUE, PatchFields, <<>>, <<>>)
      [] i = 10 -> RawBody(TRUE, HistoryFields, <<>>, <<>>)
      [] i = 11 -> RawBody(TRUE, BatchFields, <<>>, <<TRUE, TRUE>>)
      [] i = 12 -> RawBody(TRUE, BatchFields, <<>>, <<TRUE, FALSE>>)
      [] i = 13 -> RawBody(TRUE, BatchFields \cup {<<"error", "string">>},
                           <<"version conflict">>, <<FALSE, FALSE>>)

(* --------------------------------------------------- typed payload shapes *)
(* the non-Option fields of each Deserialize struct, with the JSON type    *)
(* serde accepts for it ("any" for serde_json::Value)                      *)
RequiredFields(T) ==
    CASE T = "ErrorResponse" -> {<<"error", "string">>}
      [] T = "GenerateResponse" -> {<<"success", "bool">>, <<"token", "string">>}
      [] T = "StoreResponse" ->
            {<<"success", "bool">>, <<"message", "string">>, <<"size", "number">>,
             <<"tier", "string">>, <<"version", "number">>, <<"updated_at", "string">>}
      [] T = "RetrieveResponse" ->
            {<<"success", "bool">>, <<"data", "any">>, <<"version", "number">>,
             <<"updated_at", "string">>}
      [] T = "DeleteResponse" -> {<<"success", "bool">>, <<"message", "string">>}
      [] T = "PatchResponse" ->
            {<<"success", "bool">>, <<"version", "number">>, <<"updated_at", "string">>,
             <<"data", "any">>, <<"size", "number">>, <<"tier", "string">>}
      [] T = "HistoryResponse" ->
            {<<"success", "bool">>, <<"events", "array">>, <<"pagination", "object">>}
      [] T = "BatchResponse" ->
            {<<"success", "bool">>, <<"results", "array">>, <<"summary", "object">>}

(* the Option fields: may be missing or null *)
OptionalFields(T) ==
    IF T \in {"StoreResponse", "RetrieveResponse", "PatchResponse"}
    THEN {<<"expires_at", "string">>}
    ELSE {}

TagOk(want, got) == want = "any" \/ want = got

(* serde's derived Deserialize: body must be JSON, every required field    *)
(* present with the right type, optional fields right or null; unknown     *)
(* fields are ignored                                                      *)
Decodes(T, body) ==
    /\ body.json
    /\ \A f \in RequiredFields(T) :
          \E p \in body.fields : p[1] = f[1] /\ TagOk(f[2], p[2])
    /\ \A f \in OptionalFields(T) :
          \A p \in body.fields : p[1] = f[1] => (p[2] = f[2] \/ p[2] = "null")

FieldNames(T) == {f[1] : f \in RequiredFields(T) \cup OptionalFields(T)}

NoValue == [type |-> "none", fields |-> {}, results |-> <<>>]

(* the value resp.json::<T>() yields for a decodable body *)
Decoded(T, body) ==
    [type |-> T,
     fields |-> {p \in body.fields : p[1] \in FieldNames(T)},
     results |-> IF T = "BatchResponse" THEN body.results ELSE <<>>]

(* ---------------------------------------------------------------- Error *)
Ok(v) == [kind |-> "Ok", status |-> 0, message |-> <<>>, value |-> v]
ErrRequest == [kind |-> "Request", status |-> 0, message |-> <<>>, value |-> NoValue]
ErrApi(s, m) == [kind |-> "Api", status |-> s, message |-> m, value |-> NoValue]
ErrMissingToken ==
    [kind |-> "MissingToken", status |-> 0, message |-> <<>>, value |-> NoValue]
ErrValidation(m) ==
    [kind |-> "Validation", status |-> 0, message |-> m, value |-> NoValue]
Pending == [kind |-> "Pending", status |-> 0, message |-> <<>>, value |-> NoValue]

(* --------------------------------------------------------- handle_response *)
handle_response_AlwaysDecode(T, status, body) ==
    IF Decodes(T, body) THEN Ok(Decoded(T, body)) ELSE ErrRequest

handle_response_ApiOnBadBody(T, status, body) ==
    IF IsSuccess(status) /\ Decodes(T, body)
    THEN Ok(Decoded(T, body))
    ELSE ErrApi(status,
                IF Decodes("ErrorResponse", body) THEN body.error
                ELSE SynthMessage(status))

handle_response_ItemsChecked(T, status, body) ==
    IF IsSuccess(status)
    THEN IF Decodes(T, body) /\ \A i \in 1..Len(body.results) : body.results[i]
         THEN Ok(Decoded(T, body))
         ELSE ErrRequest
    ELSE ErrApi(status,
                IF Decodes("ErrorResponse", body) THEN body.error
                ELSE SynthMessage(status))

handle_response(T, status, body) ==
    IF IsSuccess(status)
    THEN IF Decodes(T, body) THEN Ok(Decoded(T, body)) ELSE ErrRequest
    ELSE ErrApi(status,
                IF Decodes("ErrorResponse", body) THEN body.error
                ELSE SynthMessage(status))

(* ------------------------------------------------------------- requests *)
(* A request: method, URL (the formatted pieces in order), the X-KV-Token  *)
(* header (None when the method attaches none) and the JSON payload.       *)
Request(m, u, h, p) == [method |-> m, url |-> u, header |-> h, payload |-> p]

(* format!("{}/api/...", self.base_url) *)
Endpoint(base, path) == <<base, path>>

(* payload["ttl"] is set only when ttl is Some *)
StorePayload(data, ttl) ==
    IF IsSome(ttl) THEN [data |-> data, ttl |-> Unwrap(ttl)] ELSE [data |-> data]

PatchPayload(version, patchOps, ttl) ==
    IF IsSome(ttl)
    THEN [version |-> version, patch |-> patchOps, ttl |-> Unwrap(ttl)]
    ELSE [version |-> version, patch |-> patchOps]

GeneratePayload(turnstile) ==
    IF IsSome(turnstile) THEN [turnstileToken |-> Unwrap(turnstile)]
    ELSE [empty |-> TRUE]

(* HistoryOptions and the query pieces pushed for it, in program order *)
HistoryOptions(l, b, s, t) == [limit |-> l, before |-> b, since |-> s, type_filter |-> t]

HistoryQuery_TypeFirst(options) ==
    (IF IsSome(options.type_filter)
        THEN << <<"type=", Unwrap(options.type_filter)>> >> ELSE <<>>)
    \o (IF IsSome(options.limit)
        THEN << <<"limit=">> \o FmtInt(Unwrap(options.limit)) >> ELSE <<>>)
    \o (IF IsSome(options.before)
        THEN << <<"before=">> \o FmtInt(Unwrap(options.before)) >> ELSE <<>>)
    \o (IF IsSome(options.since)
        THEN << <<"since=", Unwrap(options.since)>> >> ELSE <<>>)

HistoryQuery(options) ==
    (IF IsSome(options.limit)
        THEN << <<"limit=">> \o FmtInt(Unwrap(options.limit)) >> ELSE <<>>)
    \o (IF IsSome(options.before)
        THEN << <<"before=">> \o FmtInt(Unwrap(options.before)) >> ELSE <<>>)
    \o (IF IsSome(options.since)
        THEN << <<"since=", Unwrap(options.since)>> >> ELSE <<>>)
    \o (IF IsSome(options.type_filter)
        THEN << <<"type=", Unwrap(options.type_filter)>> >> ELSE <<>>)

HistoryUrl(base, options) ==
    LET query == HistoryQuery(options)
    IN  Endpoint(base, "/api/history")
        \o (IF Len(query) # 0 THEN <<"?">> \o Join(query, "&") ELSE <<>>)

(* batch's local validation: the error it returns, if any *)
BatchValidation_OffByOne(n) ==
    IF n = 0 THEN Some("At least one operation required")
    ELSE IF n >= MaxBatch THEN Some("Maximum 100 operations per batch")
    ELSE None

BatchValidation(n) ==
    IF n = 0 THEN Some("At least one operation required")
    ELSE IF n > MaxBatch THEN Some("Maximum 100 operations per batch")
    ELSE None

BatchOperation(tok) == [action |-> "store", token |-> tok]

(* self.token.as_ref().ok_or(Error::MissingToken)? returns early on None *)
TokenMissing_Never(tok) == FALSE
TokenMissing(tok) == tok = None

(* .header("X-KV-Token", token) on the single-resource methods *)
TokenHeader_Dropped(tok) == None
TokenHeader(tok) == tok

(* generate and batch build their request without a token header *)
NoTokenHeader_Attach(tok) == tok
NoTokenHeader(tok) == None

(* .send(): one request handed to the transport *)
Send_Twice(w, req) == Append(Append(w, req), req)
Send(w, req) == Append(w, req)

(* the type each method asks handle_response to decode *)
ExpectedType(op) ==
    CASE op = "generate" -> "GenerateResponse"
      [] op = "store" -> "StoreResponse"
      [] op = "retrieve" -> "RetrieveResponse"
      [] op = "delete" -> "DeleteResponse"
      [] op = "patch" -> "PatchResponse"
      [] op = "history" -> "HistoryResponse"
      [] op = "batch" -> "BatchResponse"

TokenOps == {"store", "retrieve", "delete", "patch", "history"}
ApiOps == TokenOps \cup {"generate", "batch"}

(* ---------------------------------------------------------------- state *)
VARIABLES
    token,          \* Client.token : Option<String>
    base_url,       \* Client.base_url
    pc,             \* "idle", or "awaiting" while a call is suspended in send().await
    call,           \* the current or most recent call: its method and arguments
    wire,           \* the requests the current or most recent call handed to the transport
    resp,           \* the response the most recent call received, if any
    result,         \* the Result the most recent call returned (Pending while suspended)
    serverVersion,  \* the service's current version of the record
    stale,          \* whether the most recent patch call carried a version other than serverVersion
    configured      \* the token most recently given to a constructor or set_token

vars == <<token, base_url, pc, call, wire, resp, result, serverVersion, stale,
          configured>>

NoCall == [op |-> "none", args |-> [none |-> TRUE]]
NoResp == [received |-> FALSE, status |-> 0, body |-> BodyOf(1)]
Resp(s, b) == [received |-> TRUE, status |-> s, body |-> b]

(* Client::new(token) or Client::new_without_token() *)
Init ==
    /\ token \in {None} \cup {Some(t) : t \in Tokens}
    /\ base_url = DEFAULT_BASE_URL
    /\ pc = "idle"
    /\ call = NoCall
    /\ wire = <<>>
    /\ resp = NoResp
    /\ result = Pending
    /\ serverVersion = 0
    /\ stale = FALSE
    /\ configured = token

(* a method returns before building any request *)
EarlyReturn(c, err) ==
    /\ pc' = "idle"
    /\ call' = c
    /\ wire' = <<>>
    /\ resp' = NoResp
    /\ result' = err
    /\ stale' = (c.op = "patch" /\ c.args.version # serverVersion)
    /\ UNCHANGED <<token, base_url, serverVersion, configured>>

(* a method sends its request and suspends until the transport answers *)
SendRequest(c, req) ==
    /\ pc' = "awaiting"
    /\ call' = c
    /\ wire' = Send(<<>>, req)
    /\ resp' = NoResp
    /\ result' = Pending
    /\ stale' = FALSE
    /\ UNCHANGED <<token, base_url, serverVersion, configured>>

(* ------------------------------------------------------ client operations *)
set_token(t) ==
    /\ pc = "idle"
    /\ token' = Some(t)
    /\ configured' = Some(t)
    /\ UNCHANGED <<base_url, pc, call, wire, resp, result, serverVersion, stale>>

with_base_url(u) ==
    /\ pc = "idle"
    /\ base_url' = u
    /\ UNCHANGED <<token, pc, call, wire, resp, result, serverVersion, stale,
                   configured>>

generate(turnstile) ==
    /\ pc = "idle"
    /\ SendRequest([op |-> "generate", args |-> [turnstile |-> turnstile]],
                   Request("POST", Endpoint(base_url, "/api/generate"),
                           NoTokenHeader(token), GeneratePayload(turnstile)))

store(data, ttl) ==
    /\ pc = "idle"
    /\ LET c == [op |-> "store", args |-> [data |-> data, ttl |-> ttl]]
       IN  IF TokenMissing(token)
           THEN EarlyReturn(c, ErrMissingToken)
           ELSE SendRequest(c, Request("POST", Endpoint(base_url, "/api/store"),
                                       TokenHeader(token),
                                       StorePayload(data, ttl)))

retrieve ==
    /\ pc = "idle"
    /\ LET c == [op |-> "retrieve", args |-> [none |-> TRUE]]
       IN  IF TokenMissing(token)
           THEN EarlyReturn(c, ErrMissingToken)
           ELSE SendRequest(c, Request("GET", Endpoint(base_url, "/api/retrieve"),
                                       TokenHeader(token),
                                       [empty |-> TRUE]))

delete ==
    /\ pc = "idle"
    /\ LET c == [op |-> "delete", args |-> [none |-> TRUE]]
       IN  IF TokenMissing(token)
           THEN EarlyReturn(c, ErrMissingToken)
           ELSE SendRequest(c, Request("DELETE", Endpoint(base_url, "/api/delete"),
                                       TokenHeader(token),
                                       [empty |-> TRUE]))

patch(version, patchOps, ttl) ==
    /\ pc = "idle"
    /\ LET c == [op |-> "patch",
                 args |-> [version |-> version, patch |-> patchOps, ttl |-> ttl]]
       IN  IF TokenMissing(token)
           THEN EarlyReturn(c, ErrMissingToken)
           ELSE SendRequest(c, Request("PATCH", Endpoint(base_url, "/api/store"),
                                       TokenHeader(token),
                                       PatchPayload(version, patchOps, ttl)))

history(options) ==
    /\ pc = "idle"
    /\ LET c == [op |-> "history", args |-> [options |-> options]]
       IN  IF TokenMissing(token)
           THEN EarlyReturn(c, ErrMissingToken)
           ELSE SendRequest(c, Request("GET", HistoryUrl(base_url, options),
                                       TokenHeader(token),
                                       [empty |-> TRUE]))

batch(operations) ==
    /\ pc = "idle"
    /\ LET c == [op |-> "batch", args |-> [operations |-> operations]]
           invalid == BatchValidation(Len(operations))
       IN  IF IsSome(invalid)
           THEN EarlyReturn(c, ErrValidation(Unwrap(invalid)))
           ELSE SendRequest(c, Request("POST", Endpoint(base_url, "/api/batch"),
                                       NoTokenHeader(token),
                                       [operations |-> operations]))

(* --------------------------------------------------- transport and server *)
(* the statuses the service may answer the call in flight with: a patch    *)
(* whose version is not the current one is rejected                        *)
ServerStatuses(c, sv) ==
    IF c.op = "patch" /\ c.args.version # sv
    THEN {s \in Statuses : ~IsSuccess(s)}
    ELSE IF c.op \in {"store", "patch"} /\ sv >= MaxVersion
    THEN {s \in Statuses : ~IsSuccess(s)}
    ELSE Statuses

ServerVersionAfter(c, status, sv) ==
    IF c.op \in {"store", "patch"} /\ IsSuccess(status) THEN sv + 1 ELSE sv

(* send().await? fails: the call returns Error::Request *)
TransportFails ==
    /\ pc = "awaiting"
    /\ pc' = "idle"
    /\ resp' = NoResp
    /\ result' = ErrRequest
    /\ stale' = (call.op = "patch" /\ call.args.version # serverVersion)
    /\ UNCHANGED <<token, base_url, call, wire, serverVersion, configured>>

(* send().await? yields a response: self.handle_response(resp).await *)
Deliver(status, bodyId) ==
    /\ pc = "awaiting"
    /\ status \in ServerStatuses(call, serverVersion)
    /\ bodyId \in BodyIdsFor(call.op)
    /\ pc' = "idle"
    /\ resp' = Resp(status, BodyOf(bodyId))
    /\ result' = handle_response(ExpectedType(call.op), status, BodyOf(bodyId))
    /\ stale' = (call.op = "patch" /\ call.args.version # serverVersion)
    /\ serverVersion' = ServerVersionAfter(call, status, serverVersion)
    /\ UNCHANGED <<token, base_url, call, wire, configured>>

(* another writer (another client, or an entry of a batch) updates the record *)
ServerWrite ==
    /\ serverVersion < MaxVersion
    /\ serverVersion' = serverVersion + 1
    /\ UNCHANGED <<token, base_url, pc, call, wire, resp, result, stale,
                   configured>>

Next ==
    \/ \E t \in Tokens : set_token(t)
    \/ \E u \in BaseUrls : with_base_url(u)
    \/ \E ts \in TurnstileOpts : generate(ts)
    \/ \E ttl \in TtlOpts : store("d1", ttl)
    \/ retrieve
    \/ delete
    \/ \E v \in Versions, ttl \in TtlOpts : patch(v, "p1", ttl)
    \/ \E l \in LimitOpts, b \in BeforeOpts, s \in SinceOpts, t \in TypeOpts :
          history(HistoryOptions(l, b, s, t))
    \/ \E n \in OpsLens : batch([i \in 1..n |-> BatchOperation("gamma-token")])
    \/ TransportFails
    \/ \E status \in Statuses, bodyId \in BodyIds : Deliver(status, bodyId)
    \/ ServerWrite

Spec == Init /\ [][Next]_vars

(* ======================================================================= *)
(* Properties                                                              *)
(* ======================================================================= *)
Contains(seq, sub) ==
    \E i \in 0..(Len(seq) - Len(sub)) : SubSeq(seq, i + 1, i + Len(sub)) = sub

Positions(seq, x) == {i \in 1..Len(seq) : seq[i] = x}

(* the steps of a call: a method returning before any request, a method    *)
(* sending its request, and the suspended call resuming                    *)
CallReturnsEarly ==
    /\ pc = "idle" /\ pc' = "idle"
    /\ <<call, wire, resp, result, stale>>' # <<call, wire, resp, result, stale>>
CallSends == pc = "idle" /\ pc' = "awaiting"
CallStarts == CallReturnsEarly \/ CallSends
CallCompletes == pc = "awaiting" /\ pc' = "idle"

Returned == pc = "idle" /\ call.op \in ApiOps
Answered == Returned /\ resp.received
SuccessStatus == 200 <= resp.status /\ resp.status <= 299
OpsCount == Len(call.args.operations)

(* C1: on a client whose token is absent, store, retrieve, delete, patch   *)
(* and history return MissingToken and hand no request to the transport.   *)
(* (A token, once set, is never removed, so a client whose token is absent *)
(* now had none when its most recent call was made.)                       *)
C1_MissingToken ==
    (token = None /\ call.op \in TokenOps) =>
        /\ pc = "idle"
        /\ result = ErrMissingToken
        /\ wire = <<>>

C1_Witness ==
    /\ token = None
    /\ call.op = "history"
    /\ result.kind = "MissingToken"
    /\ serverVersion > 0

(* C2: batch fails with Validation, sending nothing, exactly when the list *)
(* is empty or longer than 100; a list of 1..100 entries is sent.          *)
C2_BatchValidation ==
    (call.op = "batch") =>
        /\ (result.kind = "Validation" /\ wire = <<>>)
              <=> (OpsCount = 0 \/ OpsCount > 100)
        /\ (1 <= OpsCount /\ OpsCount <= 100) => Len(wire) = 1
        /\ (result.kind = "Validation") => (pc = "idle" /\ ~resp.received)

C2_Witness ==
    /\ call.op = "batch"
    /\ OpsCount = 100
    /\ Len(wire) = 1
    /\ result.kind = "Ok"

(* C3: a response with a non-success status makes the call fail with an    *)
(* Api error carrying that status; the message is the body's "error"       *)
(* string when the body is a JSON object with one, and otherwise contains  *)
(* the decimal status code.                                                *)
HasErrorString(body) == body.json /\ <<"error", "string">> \in body.fields

C3_ApiError ==
    (Answered /\ ~SuccessStatus) =>
        /\ result.kind = "Api"
        /\ result.status = resp.status
        /\ result.value = NoValue
        /\ HasErrorString(resp.body) => result.message = resp.body.error
        /\ ~HasErrorString(resp.body) => Contains(result.message, NatDigits(resp.status))
        /\ (resp.status = 404 /\ resp.body = BodyOf(2))
              => result.message = <<"token not found">>
        /\ (resp.status = 500 /\ resp.body = BodyOf(1))
              => Contains(result.message, <<"5", "0", "0">>)

C3_Witness ==
    /\ Answered
    /\ call.op = "retrieve"
    /\ resp.status = 500
    /\ ~resp.body.json
    /\ result.kind = "Api"
    /\ result.message = <<"HTTP", " ", "5", "0", "0", " ", "Internal Server Error">>

(* C4: a response with a success status is decoded as the method's typed   *)
(* payload and returned; when it does not decode the call fails with the   *)
(* Request (transport) error, never Api and never a value.                 *)
C4_SuccessDecode ==
    (Answered /\ SuccessStatus) =>
        LET T == ExpectedType(call.op)
            has(f) == \E p \in resp.body.fields : p[1] = f[1] /\ (f[2] = "any" \/ p[2] = f[2])
            decodable == /\ resp.body.json
                         /\ \A f \in RequiredFields(T) : has(f)
                         /\ <<"expires_at", "number">> \notin resp.body.fields
        IN  /\ decodable => /\ result.kind = "Ok"
                            /\ result.value.type = T
                            /\ result.value.fields \subseteq resp.body.fields
                            /\ \A f \in RequiredFields(T) :
                                  \E p \in result.value.fields : p[1] = f[1]
            /\ ~decodable => result = ErrRequest

C4_Witness ==
    /\ Answered
    /\ SuccessStatus
    /\ call.op = "store"
    /\ resp.body = BodyOf(8)
    /\ result.kind = "Request"

(* C5: every call hands at most one request to the transport, exactly one  *)
(* when its local precondition holds, and none after the transport has     *)
(* failed or answered: the call then returns.                              *)
Precondition(c, tok) ==
    /\ c.op \in TokenOps => tok # None
    /\ c.op = "batch" =>
          (1 <= Len(c.args.operations) /\ Len(c.args.operations) <= 100)

C5_SingleRequest ==
    /\ [](Len(wire) <= 1)
    /\ [][CallStarts => (Len(wire') = 1 <=> Precondition(call', token))]_vars
    /\ [][CallStarts => (Len(wire') = 1 <=> pc' = "awaiting")]_vars
    /\ [][pc = "awaiting" => wire' = wire]_vars
    /\ [][CallCompletes => (call' = call /\ result'.kind # "Pending")]_vars

C5_Witness ==
    /\ Returned
    /\ call.op = "delete"
    /\ ~resp.received
    /\ result = ErrRequest
    /\ Len(wire) = 1

(* C6: a batch call answered with a success status and a decodable body    *)
(* returns a value whatever the per-operation success flags are; it fails  *)
(* only with Validation (bad list), with the transport error (no response, *)
(* or an undecodable body) or with Api (non-success status).               *)
C6_BatchEnvelope ==
    (Returned /\ call.op = "batch") =>
        /\ (resp.received /\ SuccessStatus /\ resp.body.json
               /\ BatchFields \subseteq resp.body.fields)
              => (result.kind = "Ok" /\ result.value.results = resp.body.results)
        /\ (result.kind # "Ok") =>
              \/ result.kind = "Validation" /\ ~(1 <= OpsCount /\ OpsCount <= 100)
              \/ result.kind = "Request" /\ ~resp.received
              \/ result.kind = "Request" /\ SuccessStatus
                    /\ ~(resp.body.json /\ BatchFields \subseteq resp.body.fields)
              \/ result.kind = "Api" /\ resp.received /\ ~SuccessStatus

C6_Witness ==
    /\ Returned
    /\ call.op = "batch"
    /\ result.kind = "Ok"
    /\ result.value.results = <<FALSE, FALSE>>

(* C7: generate and batch never fail with MissingToken; what they send is  *)
(* a POST to /api/generate or /api/batch without an X-KV-Token header,     *)
(* whether or not the client has a token.                                  *)
C7_NoTokenNeeded ==
    /\ (call.op = "generate") =>
          /\ Len(wire) = 1
          /\ wire[1].method = "POST"
          /\ wire[1].url[2] = "/api/generate"
          /\ wire[1].header = None
          /\ result.kind # "MissingToken"
    /\ (call.op = "batch") =>
          /\ result.kind # "MissingToken"
          /\ (1 <= OpsCount /\ OpsCount <= 100) => Len(wire) = 1
          /\ \A i \in 1..Len(wire) :
                /\ wire[i].method = "POST"
                /\ wire[i].url[2] = "/api/batch"
                /\ wire[i].header = None

C7_Witness ==
    /\ token = None
    /\ call.op = "batch"
    /\ Len(wire) = 1
    /\ result.kind = "Ok"

(* C8: the URL history sends has "limit=", "before=", "since=" and "type="  *)
(* exactly for the options that are present, each once with its value, in  *)
(* that order, the first after "?" and the others after "&"; with no       *)
(* option present the URL ends at the path, with no "?".                   *)
QueryKeys == <<"limit=", "before=", "since=", "type=">>

C8_HistoryUrl ==
    (call.op = "history" /\ wire # <<>>) =>
        LET url == wire[1].url
            o == call.args.options
            given == <<o.limit, o.before, o.since, o.type_filter>>
            present == {k \in 1..4 : IsSome(given[k])}
            pos(k) == CHOOSE i \in Positions(url, QueryKeys[k]) : TRUE
        IN  /\ url[1] \in BaseUrls /\ url[2] = "/api/history"
            /\ \A k \in 1..4 :
                  Cardinality(Positions(url, QueryKeys[k]))
                      = IF k \in present THEN 1 ELSE 0
            /\ \A j, k \in present : j < k => pos(j) < pos(k)
            /\ \A k \in present :
                  url[pos(k) - 1] = IF \E j \in present : j < k THEN "&" ELSE "?"
            /\ Cardinality(Positions(url, "?")) = IF present = {} THEN 0 ELSE 1
            /\ Cardinality(Positions(url, "&"))
                  = IF present = {} THEN 0 ELSE Cardinality(present) - 1
            /\ present = {} => Len(url) = 2
            /\ present # {} => url[3] = "?"
            /\ 3 \in present => url[pos(3) + 1] = o.since[1]
            /\ 4 \in present => url[pos(4) + 1] = o.type_filter[1]
            /\ (o.limit = <<5>> /\ 2 \notin present) => url[pos(1) + 1] = "5"
            /\ (given = << <<5>>, <<120>>, <<"2024-01-01T00:00:00Z">>, <<"temperature">> >>)
                  => SubSeq(url, 3, Len(url))
                       = <<"?", "limit=", "5", "&", "before=", "1", "2", "0", "&",
                           "since=", "2024-01-01T00:00:00Z", "&", "type=", "temperature">>

C8_Witness ==
    /\ call.op = "history"
    /\ wire # <<>>
    /\ call.args.options.limit = None
    /\ call.args.options.before # None
    /\ call.args.options.since = None
    /\ call.args.options.type_filter # None
    /\ wire[1].url = <<"http://localhost:8787", "/api/history", "?",
                       "before=", "1", "2", "0", "&", "type=", "temperature">>

(* C9 as stated: every patch call whose version is not the service's       *)
(* current one fails with an Api error, and token and base URL are left    *)
(* as they were.                                                           *)
PatchStep ==
    \/ CallStarts /\ call'.op = "patch"
    \/ pc = "awaiting" /\ call.op = "patch"

C9_StalePatchAlwaysApi ==
    /\ []((Returned /\ call.op = "patch" /\ stale) => result.kind = "Api")
    /\ [][PatchStep => (token' = token /\ base_url' = base_url)]_vars

(* C9 amended: a patch call with a stale version that the service answers  *)
(* fails with an Api error carrying the answer's status; every patch call  *)
(* leaves token and base URL as they were.                                 *)
C9_StalePatchAnswered ==
    /\ []((Answered /\ call.op = "patch" /\ stale) =>
             (result.kind = "Api" /\ result.status = resp.status
                /\ ~(200 <= resp.status /\ resp.status <= 299)))
    /\ []((Returned /\ call.op = "patch" /\ stale /\ ~resp.received) =>
             result.kind \in {"MissingToken", "Request"})
    /\ [][PatchStep => (token' = token /\ base_url' = base_url)]_vars

C9_Witness ==
    /\ Answered
    /\ call.op = "patch"
    /\ stale
    /\ call.args.version = 0
    /\ serverVersion = 1
    /\ resp.body = BodyOf(9)
    /\ result.kind = "Api"
    /\ token # None

(* C10: a request sent by store, retrieve, delete, patch or history        *)
(* carries the most recently configured token as X-KV-Token; only          *)
(* set_token changes the token, and a token once present stays present.    *)
C10_TokenHeader ==
    /\ []((pc = "awaiting" /\ call.op \in TokenOps) =>
             (Len(wire) = 1 /\ wire[1].header = configured /\ configured # None))
    /\ [](token = configured)
    /\ [][(CallSends /\ call'.op \in TokenOps) =>
             (wire'[1].header = configured /\ IsSome(configured))]_vars
    /\ [][(CallStarts \/ pc = "awaiting") => token' = token]_vars
    /\ [][token # None => token' # None]_vars

C10_Witness ==
    /\ pc = "awaiting"
    /\ call.op = "retrieve"
    /\ wire[1].header = <<"beta-token">>
    /\ configured = <<"beta-token">>
    /\ base_url # DEFAULT_BASE_URL

====
